---- MODULE Spec2Model ----
(***************************************************************************)
(* DevOpsCrisisCommander (backend/agents/orchestrator.py): the incident    *)
(* state machine of process_alert, the two incident collections, the       *)
(* observer list with its fan-out loop, and reset_system of main.py.       *)
(* The two rule-based tools, IncidentClassifierTool.run and                *)
(* ResolutionAdvisorTool.run, are pure functions of their argument: each   *)
(* is an operator, applied by one action to an input chosen in the initial *)
(* state of its own specification.                                         *)
(*                                                                         *)
(* process_alert is a coroutine.  A state of the model is a state in which *)
(* every run is suspended at an await (inside an observer callback, inside *)
(* portia.arun, inside asyncio.sleep) or has not started or has returned;  *)
(* an action resumes one run and executes its code up to the next await    *)
(* that suspends.  A broadcast over an empty observer list does not        *)
(* suspend, so the code after it belongs to the same action.               *)
(***************************************************************************)
EXTENDS Integers, Sequences, FiniteSets, TLC

NumObservers == 2
MaxCallbacks == 2
MaxRegistryOps == 2
MaxClients == 2
MaxConnects == 3
MaxNotifications == 2

\* One process_alert call per element, named by the incident_id of the
\* incident it creates (a fresh uuid4, so ids are unique per run).
Runs == {"inc-1", "inc-2"}
Observers == 1..NumObservers

VARIABLES
    active_incidents,     \* keys of self.active_incidents
    completed_incidents,  \* keys of self.completed_incidents
    websocket_callbacks,  \* self.websocket_callbacks, a list (duplicates allowed)
    incident,             \* the Incident objects, by incident_id
    task,                 \* the frame of each process_alert coroutine
    hist,                 \* history of each run (not program state)
    registry_ops,         \* number of calls that changed the observer list
    alert_data,           \* argument of IncidentClassifierTool.run
    classification_result,\* what IncidentClassifierTool.run returned
    classification_data,  \* argument of ResolutionAdvisorTool.run
    resolution_result,    \* what ResolutionAdvisorTool.run returned
    resolution_plan,      \* argument of _simulate_resolution_execution
    random_draws,         \* the values random.random() returns, in order
    execution_result,     \* what _simulate_resolution_execution returned
    active_connections,   \* manager.active_connections, a list of websockets
    notifications,        \* number of calls of _broadcast_update so far
    deliveries            \* send_text calls of the last of them, by websocket

\* The state of the orchestrator, and the arguments and results of the tools.
commander == <<active_incidents, completed_incidents, websocket_callbacks,
               incident, task, hist, registry_ops>>

classifier == <<alert_data, classification_result>>

advisor == <<classification_data, resolution_result>>

executor == <<resolution_plan, random_draws, execution_result>>

tools == <<classifier, advisor, executor>>

\* The ConnectionManager of the web application.
manager == <<active_connections, notifications, deliveries>>

collaborators == <<tools, manager>>

vars == <<active_incidents, completed_incidents, websocket_callbacks,
          incident, task, hist, registry_ops, alert_data,
          classification_result, classification_data, resolution_result,
          resolution_plan, random_draws, execution_result,
          active_connections, notifications, deliveries>>

\* IncidentStatus, in declaration order.
IncidentStatus == <<"detected", "analyzing", "resolving", "resolved", "closed">>

Rank(s) == CHOOSE k \in 1..Len(IncidentStatus) : IncidentStatus[k] = s

\* Incident(alert_id=...): status defaults to DETECTED, timeline to [],
\* classification and resolved_at to None.
NewIncident ==
    [status |-> "detected", timeline |-> <<>>, classification |-> FALSE,
     resolved_at |-> FALSE]

\* The awaits of _broadcast_update in process_alert, in program order.
Sites == {"created", "analyzing", "resolving", "resolved", "unresolved",
          "completed"}

\* The "type" of the message broadcast at a site.
MessageType(site) ==
    CASE site = "created" -> "incident_created"
      [] site = "completed" -> "incident_completed"
      [] OTHER -> "status_update"

NoTask == [pc |-> "start", site |-> "none", idx |-> 0]

NoHist ==
    [statusLog |-> <<>>,      \* every value assigned to incident.status
     exec |-> "none",         \* execution_result["success"]: none/success/failure
     cleared |-> FALSE,       \* reset_system ran after the incident was created
     errStage |-> "none",     \* stage whose exception reached the handler
     errCause |-> "none",     \* what raised: enrichment/validation/keyerror
     errStatus |-> "none",    \* incident.status when that exception was raised
     bcStart |-> <<>>,        \* observer list when the in-flight broadcast began
     bcGot |-> <<>>,          \* observers called by the in-flight broadcast
     bcFailed |-> FALSE,      \* a callback of the in-flight broadcast raised
     bcMutated |-> FALSE,     \* the list changed during the in-flight broadcast
     emitted |-> <<>>,        \* the messages passed to _broadcast_update
     delivered |-> <<>>,      \* callback calls: observer and index in emitted
     steady |-> {}]           \* observers registered since the run began

\* The observer lists of at most MaxCallbacks entries: observers register
\* before and during the runs.
CallbackLists ==
    UNION {[1..n -> Observers] : n \in 0..MaxCallbacks}

\* An alert_data argument.  form: "object" is a JSON object (or a dict),
\* "text" a string that is not JSON, "array" JSON that is not an object.
\* message is the set of the probed words that occur in the lower-cased
\* message; metrics maps the keys that carry a number to it (error_rate in
\* hundredths); nulls is the set of keys whose value is null (None); ""
\* stands for an absent or empty string.
NoAlert ==
    [form |-> "text", alert_type |-> "", severity |-> "", message |-> {},
     affected_services |-> <<>>, metrics |-> [k \in {} |-> 0],
     source_system |-> "", nulls |-> {}]

\* A classification_data argument: no classification given.
NoClassification ==
    [form |-> "none", category |-> "", severity |-> "", confidence |-> 0,
     nulls |-> {}]

\* DevOpsCrisisCommander.__init__: the collections are empty and no
\* process_alert run has started.
Constructed ==
    /\ active_incidents = {}
    /\ completed_incidents = {}
    /\ registry_ops = 0
    /\ incident = <<>>
    /\ task = [r \in Runs |-> NoTask]
    /\ hist = [r \in Runs |-> NoHist]

\* The classifier tool has not been called.
ClassifierIdle == alert_data = NoAlert /\ classification_result = <<>>

\* The advisor tool has not been called.
AdvisorIdle ==
    classification_data = NoClassification /\ resolution_result = <<>>

\* A resolution_plan argument: no steps, the default probability (in
\* hundredths).
NoPlan == [recommended_steps |-> <<>>, success_probability |-> 80]

\* _simulate_resolution_execution has not been called.
ExecutorIdle ==
    resolution_plan = NoPlan /\ random_draws = <<>> /\ execution_result = <<>>

Clients == 1..MaxClients

\* No websocket has connected, and nothing was broadcast.
ManagerIdle ==
    /\ active_connections = <<>>
    /\ notifications = 0
    /\ deliveries = [c \in Clients |-> 0]

Init ==
    /\ Constructed
    /\ websocket_callbacks \in CallbackLists
    /\ ClassifierIdle
    /\ AdvisorIdle
    /\ ExecutorIdle
    /\ ManagerIdle

\* The state a run works on, as one value; Becomes(w) installs it.
World ==
    [active |-> active_incidents, completed |-> completed_incidents,
     incident |-> incident, task |-> task, hist |-> hist]

Becomes(w) ==
    /\ active_incidents' = w.active
    /\ completed_incidents' = w.completed
    /\ incident' = w.incident
    /\ task' = w.task
    /\ hist' = w.hist
    /\ UNCHANGED <<websocket_callbacks, registry_ops>>
    /\ UNCHANGED collaborators

\* Variant: the status is assigned to every incident there is.
SetStatus_Shared(w, r, status) ==
    [w EXCEPT !.incident = [q \in DOMAIN @ |->
                               [@[q] EXCEPT !.status = status]],
              !.hist[r].statusLog = Append(@, status)]

\* incident.status = status
SetStatus(w, r, status) ==
    [w EXCEPT !.incident[r].status = status,
              !.hist[r].statusLog = Append(@, status)]

\* Variant: the entry replaces the timeline instead of extending it.
AppendTimeline_Replace(w, r, action) ==
    [w EXCEPT !.incident[r].timeline = <<action>>]

\* Variant: the entry is inserted at the head of the timeline.
AppendTimeline_Insert(w, r, action) ==
    [w EXCEPT !.incident[r].timeline = <<action>> \o @]

\* incident.timeline.append({... "action": action ...})
AppendTimeline(w, r, action) ==
    [w EXCEPT !.incident[r].timeline = Append(@, action)]

\* The run suspends in an await of the given kind.
Suspend(w, r, pc) ==
    [w EXCEPT !.task[r] = [pc |-> pc, site |-> "none", idx |-> 0]]

\* return incident
Return(w, r) ==
    [w EXCEPT !.task[r] = [pc |-> "returned", site |-> "none", idx |-> 0]]

\* Variant: the handler returns without recording the error.
ExceptHandler_NoEntry(w, r) == Return(w, r)

\* except Exception as e: the error entry is appended only while the
\* incident is a key of active_incidents; the handler returns the incident
\* (the broadcast of incident_error and the raise after the return are
\* unreachable).
ExceptHandler(w, r) ==
    Return(IF r \in w.active THEN AppendTimeline(w, r, "error_handling")
                             ELSE w, r)

\* An exception raised by a stage inside the try block of process_alert.
Raise(w, r, stage, cause) ==
    ExceptHandler([w EXCEPT !.hist[r].errStage = stage,
                            !.hist[r].errCause = cause,
                            !.hist[r].errStatus = w.incident[r].status], r)

\* The list iterator of "for callback in self.websocket_callbacks": it holds
\* an index into the live list and stops when the index reaches the length.
HasNext(idx) == idx < Len(websocket_callbacks)

\* Variant: a failed execution puts the incident back to ANALYZING.
StatusAfterExecution_Backward(success) ==
    IF success THEN "resolved" ELSE "analyzing"

\* Variant: the outcome of the execution is ignored.
StatusAfterExecution_Always(success) == "resolved"

\* if execution_result.get("success", False): RESOLVED else RESOLVING
StatusAfterExecution(success) == IF success THEN "resolved" ELSE "resolving"

\* Variant: the insert without the delete.
MoveToCompleted_NoDelete(w, r) == [w EXCEPT !.completed = @ \cup {r}]

\* Variant: the delete without the insert.
MoveToCompleted_NoInsert(w, r) == [w EXCEPT !.active = @ \ {r}]

\* self.completed_incidents[id] = incident; del self.active_incidents[id]
\* (the del raises KeyError when the key is missing, see DelRaises).
MoveToCompleted(w, r) ==
    [w EXCEPT !.completed = @ \cup {r}, !.active = @ \ {r}]

DelRaises(w, r) == r \notin w.active

RECURSIVE _broadcast_update(_, _, _)
RECURSIVE AfterBroadcast(_, _, _)

\* _update_incident_status: assign the status, then broadcast status_update.
_update_incident_status(w, r, status, site) ==
    _broadcast_update(SetStatus(w, r, status), r, site)

\* The code of process_alert that follows the broadcast awaited at a site,
\* up to the next await.
AfterBroadcast(w, r, site) ==
    LET done == [w EXCEPT !.hist[r].bcStart = <<>>, !.hist[r].bcGot = <<>>,
                          !.hist[r].bcFailed = FALSE,
                          !.hist[r].bcMutated = FALSE]
    IN CASE site = "created" ->
              _update_incident_status(done, r, "analyzing", "analyzing")
         [] site = "analyzing" -> Suspend(done, r, "classify")
         [] site = "resolving" -> Suspend(done, r, "advisory")
         [] site = "resolved" ->
              Suspend([done EXCEPT !.incident[r].resolved_at = TRUE], r,
                      "postmortem")
         [] site = "unresolved" -> Suspend(done, r, "postmortem")
         [] site = "completed" -> Return(done, r)

\* await callback(WebSocketMessage(**message)) for the observer at
\* position k of the list: it is called with the message emitted last.
Deliver(w, r, k) ==
    [w EXCEPT !.hist[r].bcGot = Append(@, websocket_callbacks[k]),
              !.hist[r].delivered =
                  Append(@, [to |-> websocket_callbacks[k],
                             msg |-> Len(w.hist[r].emitted)])]

\* _broadcast_update: start the loop over the observer list; the run
\* suspends inside the first callback, or goes on when the list is empty.
_broadcast_update(w, r, site) ==
    LET message == [type |-> MessageType(site),
                    status |-> w.incident[r].status]
        w1 == [w EXCEPT !.hist[r].emitted = Append(@, message)]
    IN IF HasNext(0)
       THEN Deliver(
              [w1 EXCEPT !.task[r] = [pc |-> "callback", site |-> site,
                                      idx |-> 1],
                         !.hist[r].bcStart = websocket_callbacks,
                         !.hist[r].bcGot = <<>>,
                         !.hist[r].bcFailed = FALSE,
                         !.hist[r].bcMutated = FALSE], r, 1)
       ELSE AfterBroadcast(w1, r, site)

\* Variant: a raising callback ends the loop (the try around the loop
\* instead of inside it).
AfterCallback_Abort(w, r, ok) ==
    LET i == w.task[r].idx
    IN IF ok /\ HasNext(i)
       THEN Deliver([w EXCEPT !.task[r].idx = i + 1], r, i + 1)
       ELSE AfterBroadcast(w, r, w.task[r].site)

\* What a raising callback does to the loop: the except clause of
\* _broadcast_update prints and the loop goes on, as after a normal return.
AfterCallback(w, r, ok) ==
    LET w1 == IF ok THEN w ELSE [w EXCEPT !.hist[r].bcFailed = TRUE]
        i == w.task[r].idx
    IN IF HasNext(i)
       THEN Deliver([w1 EXCEPT !.task[r].idx = i + 1], r, i + 1)
       ELSE AfterBroadcast(w1, r, w.task[r].site)

----------------------------------------------------------------------------
\* process_alert is called: the incident is created and stored, and
\* incident_created is broadcast.
ProcessAlert(r) ==
    /\ task[r].pc = "start"
    /\ LET w == [World EXCEPT !.incident = @ @@ (r :> NewIncident),
                              !.active = @ \cup {r},
                              !.hist[r].statusLog = <<NewIncident.status>>,
                              !.hist[r].steady =
                                  {websocket_callbacks[k] :
                                      k \in 1..Len(websocket_callbacks)}]
       IN Becomes(_broadcast_update(w, r, "created"))

\* The callback the run is suspended in returns (ok) or raises (~ok).
CallbackReturns(r) ==
    /\ task[r].pc = "callback"
    /\ \E ok \in BOOLEAN : Becomes(AfterCallback(World, r, ok))

\* portia.arun gives a result, gives no output, or raises.
EnrichmentOutcomes == {"result", "empty", "raises"}

\* _classify_incident resumes from portia.arun.  "raises": arun raised;
\* "empty": no output, _fallback_classification is used; valid = FALSE:
\* Classification(**classification_result) rejects the result.
ClassifyReturns(r) ==
    /\ task[r].pc = "classify"
    /\ \E out \in EnrichmentOutcomes, valid \in BOOLEAN :
         /\ out # "result" => valid
         /\ LET w == World
            IN IF out = "raises" \/ ~valid
               THEN Becomes(Raise(w, r, "classify",
                       IF out = "raises" THEN "enrichment" ELSE "validation"))
               ELSE Becomes(_update_incident_status(
                       AppendTimeline(
                          [w EXCEPT !.incident[r].classification = TRUE],
                          r, "classify_incident"),
                       r, "resolving", "resolving"))

\* _get_resolution_advisory resumes from portia.arun; the plan is recorded
\* and _simulate_resolution_execution runs up to its asyncio.sleep.
\* valid = FALSE: the plan returned by the service is not a dict, so
\* resolution_plan.get raises in the execution stage.
AdvisoryReturns(r) ==
    /\ task[r].pc = "advisory"
    /\ \E out \in EnrichmentOutcomes, valid \in BOOLEAN :
         /\ out # "result" => valid
         /\ LET w == World
            IN IF out = "raises"
               THEN Becomes(Raise(w, r, "advisory", "enrichment"))
               ELSE LET w1 == AppendTimeline(w, r, "suggest_resolution")
                    IN IF valid THEN Becomes(Suspend(w1, r, "execute"))
                       ELSE Becomes(Raise(w1, r, "execute", "validation"))

\* _simulate_resolution_execution resumes from the sleep and draws the
\* outcome; step 4 of process_alert assigns the status.
ExecutionReturns(r) ==
    /\ task[r].pc = "execute"
    /\ \E success \in BOOLEAN :
         LET w == AppendTimeline(
                    [World EXCEPT !.hist[r].exec =
                        IF success THEN "success" ELSE "failure"],
                    r, "execute_resolution")
         IN Becomes(_update_incident_status(w, r,
                       StatusAfterExecution(success),
                       IF success THEN "resolved" ELSE "unresolved"))

\* _generate_postmortem resumes from portia.arun; the entry is appended, a
\* resolved incident is moved to completed_incidents, and
\* incident_completed is broadcast.
PostmortemReturns(r) ==
    /\ task[r].pc = "postmortem"
    /\ \E out \in EnrichmentOutcomes :
         LET w == World
             w1 == AppendTimeline(w, r, "generate_postmortem")
         IN IF out = "raises"
            THEN Becomes(Raise(w, r, "postmortem", "enrichment"))
            ELSE IF w1.incident[r].status = "resolved"
                 THEN IF DelRaises(w1, r)
                      THEN Becomes(Raise(MoveToCompleted(w1, r), r, "move",
                                         "keyerror"))
                      ELSE Becomes(_broadcast_update(MoveToCompleted(w1, r),
                                                     r, "completed"))
                 ELSE Becomes(_broadcast_update(w1, r, "completed"))

\* A change of the observer list is seen by every broadcast in flight, and
\* an observer that left the list has not been registered all along.
NoteMutation ==
    hist' = [r \in Runs |->
               [hist[r] EXCEPT
                  !.bcMutated = @ \/ task[r].pc = "callback",
                  !.steady = @ \cap {websocket_callbacks'[k] :
                                       k \in 1..Len(websocket_callbacks')}]]

\* register_websocket_callback: append, with no check for duplicates.
register_websocket_callback(o) ==
    /\ Len(websocket_callbacks) < MaxCallbacks
    /\ registry_ops < MaxRegistryOps
    /\ registry_ops' = registry_ops + 1
    /\ websocket_callbacks' = Append(websocket_callbacks, o)
    /\ NoteMutation
    /\ UNCHANGED <<active_incidents, completed_incidents, incident, task>>
    /\ UNCHANGED collaborators

\* list.remove(x): the list without the first occurrence of x.
Remove(list, x) ==
    LET k == CHOOSE j \in 1..Len(list) :
                 list[j] = x /\ \A m \in 1..(j - 1) : list[m] # x
    IN SubSeq(list, 1, k - 1) \o SubSeq(list, k + 1, Len(list))

\* unregister_websocket_callback: remove the first occurrence, if any.
unregister_websocket_callback(o) ==
    /\ \E j \in 1..Len(websocket_callbacks) : websocket_callbacks[j] = o
    /\ registry_ops < MaxRegistryOps
    /\ registry_ops' = registry_ops + 1
    /\ websocket_callbacks' = Remove(websocket_callbacks, o)
    /\ NoteMutation
    /\ UNCHANGED <<active_incidents, completed_incidents, incident, task>>
    /\ UNCHANGED collaborators

\* POST /admin/reset: both collections are cleared.
reset_system ==
    /\ active_incidents' = {}
    /\ completed_incidents' = {}
    /\ hist' = [r \in Runs |->
                  IF r \in DOMAIN incident
                  THEN [hist[r] EXCEPT !.cleared = TRUE] ELSE hist[r]]
    /\ UNCHANGED <<websocket_callbacks, incident, task, registry_ops>>
    /\ UNCHANGED collaborators

\* get_incident_by_id: the id when one of the collections has it.
get_incident_by_id(incident_id) ==
    IF incident_id \in active_incidents THEN incident_id
    ELSE IF incident_id \in completed_incidents THEN incident_id
    ELSE "None"

\* Concurrent process_alert runs and reset calls, over an observer list
\* that was filled before the runs and stays as it is.
Next ==
    \/ \E r \in Runs : ProcessAlert(r)
    \/ \E r \in Runs : CallbackReturns(r)
    \/ \E r \in Runs : ClassifyReturns(r)
    \/ \E r \in Runs : AdvisoryReturns(r)
    \/ \E r \in Runs : ExecutionReturns(r)
    \/ \E r \in Runs : PostmortemReturns(r)
    \/ reset_system

Spec == Init /\ [][Next]_vars

\* The fan-out: one process_alert run, with observers registering and
\* unregistering while its broadcasts are in flight.
FanoutRuns == {"inc-1"}

NextFanout ==
    \/ \E r \in FanoutRuns : ProcessAlert(r)
    \/ \E r \in FanoutRuns : CallbackReturns(r)
    \/ \E r \in FanoutRuns : ClassifyReturns(r)
    \/ \E r \in FanoutRuns : AdvisoryReturns(r)
    \/ \E r \in FanoutRuns : ExecutionReturns(r)
    \/ \E r \in FanoutRuns : PostmortemReturns(r)
    \/ \E o \in Observers : register_websocket_callback(o)
    \/ \E o \in Observers : unregister_websocket_callback(o)

SpecFanout == Init /\ [][NextFanout]_vars

----------------------------------------------------------------------------
\* IncidentClassifierTool (backend/agents/incident_classifier.py).

MaxKeywords == 2

\* The words of the message that the tool probes for, among those an alert
\* of the model can carry (none of them is a substring of another).
Vocabulary ==
    {"database", "connection", "network", "cpu", "down", "health check"}

Messages == {m \in SUBSET Vocabulary : Cardinality(m) <= MaxKeywords}

AlertTypes == {"", "cpu", "CPU", "database", "network", "application"}

StatedSeverities == {"", "critical", "high", "medium", "low"}

ServiceLists == {<<>>, <<"web-server">>, <<"user-db">>, <<"auth-service">>}

MetricNames == {"cpu_usage", "memory_usage", "error_rate", "response_time"}

\* The readings a metric can carry: none (<<>>), or one on either side of
\* the threshold the tool compares it with.
Readings(name) ==
    CASE name = "cpu_usage" -> {<<>>, <<95>>, <<96>>}
      [] name = "memory_usage" -> {<<>>, <<91>>}
      [] name = "error_rate" -> {<<>>, <<21>>}
      [] name = "response_time" -> {<<>>, <<5001>>}

MetricBundles ==
    {[k \in {n \in MetricNames : c[n] # <<>>} |-> c[k][1]] :
        c \in {f \in [MetricNames -> UNION {Readings(n) : n \in MetricNames}] :
                 \A n \in MetricNames : f[n] \in Readings(n)}}

\* The alerts of the model: JSON objects with every combination of the
\* fields, among them objects whose message or cpu_usage is null; a string
\* that is not JSON; a JSON array.
IsAlert(a) ==
    \/ a \in {NoAlert, [NoAlert EXCEPT !.form = "array"]}
    \/ \E t \in AlertTypes, s \in StatedSeverities, m \in Messages,
          l \in ServiceLists, b \in MetricBundles, y \in {"", "prometheus"},
          z \in {{}, {"message"}, {"cpu_usage"}} :
            /\ "message" \in z => m = {}
            /\ "cpu_usage" \in z => "cpu_usage" \notin DOMAIN b
            /\ a = [form |-> "object", alert_type |-> t, severity |-> s,
                    message |-> m, affected_services |-> l, metrics |-> b,
                    source_system |-> y, nulls |-> z]

\* str.lower() on the strings of the model.
Lower(text) == CASE text = "CPU" -> "cpu" [] OTHER -> text

\* word in text, for the alert types and service names of the model.
Contains(text, word) ==
    word \in (CASE text = "user-db" -> {"user", "db", "user-db"}
                [] text = "auth-service" -> {"auth", "service", "auth-service"}
                [] text = "web-server" -> {"web", "server", "web-server"}
                [] OTHER -> {text})

\* any(word in message for word in words)
AnyIn(words, message) == words \cap message # {}

\* json.loads(alert_data); a JSONDecodeError gives {"raw_data": alert_data},
\* a dict with none of the keys the tool reads.
alert_info(alert) == IF alert.form = "text" THEN NoAlert ELSE alert

\* The try block of run raises: alert_info has no get (not a dict), lower()
\* is called on None, get is called on None, or None is compared with a
\* number.
ClassifierRaises(alert) ==
    \/ alert.form = "array"
    \/ alert.nulls \cap {"alert_type", "severity", "message", "metrics"} # {}
    \/ alert.nulls \cap MetricNames # {}

_determine_category(alert_type, message, services) ==
    IF AnyIn({"database", "connection", "query", "sql", "redis", "mongo"},
             message) THEN "database"
    ELSE IF \E word \in {"database", "db"} : Contains(alert_type, word)
         THEN "database"
    ELSE IF \E k \in 1..Len(services) : Contains(services[k], "db")
         THEN "database"
    ELSE IF AnyIn({"network", "latency", "timeout", "ssl", "certificate",
                   "dns"}, message) THEN "network"
    ELSE IF alert_type = "network" THEN "network"
    ELSE IF AnyIn({"cdn", "proxy", "gateway"}, message) THEN "network"
    ELSE IF AnyIn({"application", "service", "endpoint", "api",
                   "error rate"}, message) THEN "application"
    ELSE IF alert_type = "application" THEN "application"
    ELSE IF \E k \in 1..Len(services) : Contains(services[k], "service")
         THEN "application"
    ELSE IF alert_type \in {"cpu", "memory", "disk"} THEN "infrastructure"
    ELSE IF AnyIn({"cpu", "memory", "disk", "storage", "filesystem"},
                  message) THEN "infrastructure"
    ELSE "infrastructure"

\* severity_map.get(original_severity, 2)
severity_map(original_severity) ==
    CASE original_severity = "critical" -> 4
      [] original_severity = "high" -> 3
      [] original_severity = "medium" -> 2
      [] original_severity = "low" -> 1
      [] OTHER -> 2

\* metrics.get(key, 0)
Reading(metrics, key) == IF key \in DOMAIN metrics THEN metrics[key] ELSE 0

\* The adjustments of _assess_severity that fire, each worth one point.
Triggers(metrics, message, category) ==
    {g \in {"cpu_usage", "memory_usage", "error_rate", "response_time",
            "critical_keywords", "database_connection",
            "application_health_check"} :
        CASE g = "cpu_usage" -> Reading(metrics, "cpu_usage") > 95
          [] g = "memory_usage" -> Reading(metrics, "memory_usage") > 90
          [] g = "error_rate" -> Reading(metrics, "error_rate") > 10
          [] g = "response_time" -> Reading(metrics, "response_time") > 5000
          [] g = "critical_keywords" ->
                AnyIn({"down", "failed", "critical", "emergency", "outage"},
                      message)
          [] g = "database_connection" ->
                category = "database" /\ "connection" \in message
          [] g = "application_health_check" ->
                category = "application" /\ "health check" \in message}

\* Convert score back to severity level.
SeverityLevel(severity_score) ==
    IF severity_score >= 5 THEN "critical"
    ELSE IF severity_score >= 4 THEN "high"
    ELSE IF severity_score >= 3 THEN "medium"
    ELSE "low"

\* Variant: a score above five is taken for out of range and gets the
\* default level.
_assess_severity_Capped(original_severity, metrics, message, category) ==
    LET severity_score == severity_map(original_severity)
                          + Cardinality(Triggers(metrics, message, category))
    IN IF severity_score > 5 THEN "medium"
       ELSE SeverityLevel(severity_score)

_assess_severity(original_severity, metrics, message, category) ==
    SeverityLevel(severity_map(original_severity)
                  + Cardinality(Triggers(metrics, message, category)))

\* bool(alert_data.get(key)) for the four optional fields.
Populated(alert, key) ==
    CASE key = "alert_type" -> alert.alert_type # ""
      [] key = "metrics" -> DOMAIN alert.metrics # {}
      [] key = "affected_services" -> alert.affected_services # <<>>
      [] key = "source_system" -> alert.source_system # ""

category_keywords(category) ==
    CASE category = "database" -> {"database", "connection", "query", "sql"}
      [] category = "network" -> {"network", "latency", "ssl", "dns"}
      [] category = "application" -> {"application", "service", "api",
                                      "error"}
      [] category = "infrastructure" -> {"cpu", "memory", "disk", "storage"}
      [] OTHER -> {}

Min(a, b) == IF a <= b THEN a ELSE b

\* The confidence before the final min, in hundredths: the base 0.5, 0.1
\* per populated field, 0.05 per keyword of the category up to 0.2, and 0.1
\* for a critical severity backed by cpu_usage or error_rate.
Boosted(alert, category, severity) ==
    50
    + 10 * Cardinality({key \in {"alert_type", "metrics",
                                 "affected_services", "source_system"} :
                           Populated(alert, key)})
    + Min(5 * Cardinality(category_keywords(category) \cap alert.message), 20)
    + (IF severity = "critical"
          /\ (Reading(alert.metrics, "cpu_usage") > 95
              \/ Reading(alert.metrics, "error_rate") > 20)
       THEN 10 ELSE 0)

\* Variant: the confidence is returned without the final min.
_calculate_confidence_Unclamped(alert, category, severity) ==
    Boosted(alert, category, severity)

\* return min(confidence, 1.0), in hundredths.
_calculate_confidence(alert, category, severity) ==
    Min(Boosted(alert, category, severity), 100)

\* The fallback classification of the except clause of run.
FallbackClassification ==
    [category |-> "unknown", severity |-> "medium", confidence |-> 30]

\* IncidentClassifierTool.run: category, severity and confidence of the
\* dict it returns.
IncidentClassifierTool_run(alert) ==
    IF ClassifierRaises(alert) THEN FallbackClassification
    ELSE LET info == alert_info(alert)
             alert_type == Lower(info.alert_type)
             severity == Lower(info.severity)
             category == _determine_category(alert_type, info.message,
                                             info.affected_services)
             assessed_severity == _assess_severity(severity, info.metrics,
                                                   info.message, category)
         IN [category |-> category, severity |-> assessed_severity,
             confidence |-> _calculate_confidence(info, category,
                                                  assessed_severity)]

\* The classifier tool is called once, on any alert.
InitClassifier ==
    /\ Constructed
    /\ websocket_callbacks = <<>>
    /\ IsAlert(alert_data)
    /\ classification_result = <<>>
    /\ AdvisorIdle
    /\ ExecutorIdle
    /\ ManagerIdle

Classify ==
    /\ classification_result = <<>>
    /\ classification_result' = <<IncidentClassifierTool_run(alert_data)>>
    /\ UNCHANGED <<commander, alert_data, advisor, executor, manager>>

NextClassifier == Classify

SpecClassifier == InitClassifier /\ [][NextClassifier]_vars

----------------------------------------------------------------------------
\* ResolutionAdvisorTool (backend/agents/resolution_advisor.py).

\* A step of a runbook or of a plan.
Step(command, automation_possible, risk_level) ==
    [command |-> command, automation_possible |-> automation_possible,
     risk_level |-> risk_level]

\* _load_runbooks: the catalog, in its order; success_rate in hundredths.
runbook_db ==
    <<[category |-> "infrastructure",
       severity_levels |-> {"critical", "high"},
       title |-> "High CPU Usage Resolution",
       steps |-> <<Step("top -o %CPU | head -10", TRUE, "low"),
                   Step("uptime && free -h && df -h", TRUE, "low"),
                   Step("kubectl scale deployment [service-name] --replicas=5",
                        TRUE, "medium"),
                   Step("Monitor for 5 minutes", FALSE, "low")>>,
       success_rate |-> 85],
      [category |-> "database",
       severity_levels |-> {"critical", "high"},
       title |-> "Database Connection Pool Exhaustion",
       steps |-> <<Step("SELECT count(*) FROM pg_stat_activity;", TRUE,
                        "low"),
                   Step("SELECT query, state, query_start FROM pg_stat_activity WHERE state != 'idle' ORDER BY query_start;",
                        TRUE, "low"),
                   Step("SELECT pg_terminate_backend(pid) FROM pg_stat_activity WHERE query_start < now() - interval '30 minutes';",
                        FALSE, "high"),
                   Step("kubectl rollout restart deployment [app-name]",
                        TRUE, "medium")>>,
       success_rate |-> 92],
      [category |-> "application",
       severity_levels |-> {"critical", "high"},
       title |-> "Application Error Rate Resolution",
       steps |-> <<Step("kubectl logs -l app=[service-name] --tail=100 | grep ERROR",
                        TRUE, "low"),
                   Step("curl -f http://[service]/health", TRUE, "low"),
                   Step("kubectl rollout restart deployment [service-name]",
                        TRUE, "medium"),
                   Step("Monitor error metrics for 10 minutes", FALSE,
                        "low")>>,
       success_rate |-> 78],
      [category |-> "network",
       severity_levels |-> {"high", "medium"},
       title |-> "Network Latency Resolution",
       steps |-> <<Step("ping -c 10 [target-host] && traceroute [target-host]",
                        TRUE, "low"),
                   Step("Check load balancer status and backend health",
                        FALSE, "low"),
                   Step("Update CDN configuration or DNS routing", FALSE,
                        "medium")>>,
       success_rate |-> 88]>>

\* "database" in step.command.lower() or "pg_" in step.command, for the
\* commands of the catalog and of the generic plan.
MentionsDatabase(command) ==
    command \in {"SELECT count(*) FROM pg_stat_activity;",
                 "SELECT query, state, query_start FROM pg_stat_activity WHERE state != 'idle' ORDER BY query_start;",
                 "SELECT pg_terminate_backend(pid) FROM pg_stat_activity WHERE query_start < now() - interval '30 minutes';"}

Categories ==
    {"infrastructure", "application", "database", "network", "unknown"}

\* The confidences of the model, in hundredths: inside [0, 1] and above.
Confidences == {0, 50, 90, 100, 150}

\* The classification_data of the model: dicts with every combination of
\* category, severity ("" for none) and confidence (a number or null), no
\* classification at all, a string that is not JSON, and a JSON array.
IsClassification(c) ==
    \/ c \in {[NoClassification EXCEPT !.form = f] :
                 f \in {"none", "text", "array"}}
    \/ \E g \in Categories, s \in StatedSeverities, p \in Confidences,
          z \in {{}, {"confidence"}} :
            /\ z # {} => p = 0
            /\ c = [form |-> "dict", category |-> g, severity |-> s,
                    confidence |-> p, nulls |-> z]

\* The classification run works on: the dict, or the default for no data
\* and for a JSONDecodeError; severity and confidence have defaults.
classification(c) ==
    LET given == IF c.form = "dict" THEN c
                 ELSE [c EXCEPT !.category = "unknown",
                                !.severity = "medium", !.confidence = 50]
    IN [given EXCEPT !.severity = IF @ = "" THEN "medium" ELSE @]

\* Variant: all the matches are returned, not the first two.
_find_matching_runbooks_All(category, severity) ==
    LET Exact(runbook) ==
            /\ runbook.category = category
            /\ severity \in runbook.severity_levels
        Similar(runbook) == severity \in runbook.severity_levels
    IN IF SelectSeq(runbook_db, Exact) # <<>>
       THEN SelectSeq(runbook_db, Exact)
       ELSE SelectSeq(runbook_db, Similar)

_find_matching_runbooks(category, severity) ==
    LET Exact(runbook) ==
            /\ \/ runbook.category = category
               \/ category = "infrastructure"
                  /\ runbook.category \in {"cpu", "memory", "disk"}
            /\ severity \in runbook.severity_levels
        Similar(runbook) == severity \in runbook.severity_levels
        matched == IF SelectSeq(runbook_db, Exact) # <<>>
                   THEN SelectSeq(runbook_db, Exact)
                   ELSE SelectSeq(runbook_db, Similar)
    IN SubSeq(matched, 1, Min(2, Len(matched)))

_generate_generic_steps(severity) ==
    <<Step("Review monitoring dashboards and logs", FALSE, "low"),
      Step("Execute appropriate mitigation steps", FALSE, "medium")>>
    \o (IF severity \in {"critical", "high"}
        THEN <<Step("Page on-call engineer with incident details", TRUE,
                    "low")>>
        ELSE <<>>)

\* The steps of the first matched runbook, or the generic steps.
_generate_resolution_steps(runbooks, severity) ==
    IF runbooks = <<>> THEN _generate_generic_steps(severity)
    ELSE runbooks[1].steps

Max(a, b) == IF a >= b THEN a ELSE b

\* max(int(base_time), 5): three minutes per step, times 1.5 (critical) or
\* 0.8 (low), plus two minutes per manual step; computed in tenths of a
\* minute, int() drops the tenths.
_estimate_resolution_time(steps, severity) ==
    LET base_time == Len(steps) * 3 *
                        (IF severity = "critical" THEN 15
                         ELSE IF severity = "low" THEN 8 ELSE 10)
        manual_steps == Cardinality({k \in 1..Len(steps) :
                                        ~steps[k].automation_possible})
    IN Max((base_time + manual_steps * 20) \div 10, 5)

\* The probability before the final min, in units of 1/20000000: twice the
\* average success rate (hundredths), times 0.7 + 0.3 * confidence (in
\* 1/10000), times 0.9 (critical) or 1.1 (low) (in tenths).
Scaled(runbooks, confidence, severity) ==
    LET Sum[k \in 0..Len(runbooks)] ==
            IF k = 0 THEN 0 ELSE Sum[k - 1] + runbooks[k].success_rate
    IN ((2 * Sum[Len(runbooks)]) \div Len(runbooks))
       * (7000 + 30 * confidence)
       * (IF severity = "critical" THEN 9
          ELSE IF severity = "low" THEN 11 ELSE 10)

\* Variant: the probability is returned without the cap.
_calculate_success_probability_NoCap(runbooks, confidence, severity) ==
    IF runbooks = <<>> THEN 12000000
    ELSE Scaled(runbooks, confidence, severity)

\* 0.6 without a runbook, else min(probability, 0.95); in units of
\* 1/20000000.
_calculate_success_probability(runbooks, confidence, severity) ==
    IF runbooks = <<>> THEN 12000000
    ELSE Min(Scaled(runbooks, confidence, severity), 19000000)

\* Variant: approval is asked for critical incidents only.
_requires_human_approval_CriticalOnly(steps, severity) ==
    severity = "critical"

_requires_human_approval(steps, severity) ==
    \/ severity = "critical"
    \/ \E k \in 1..Len(steps) : steps[k].risk_level = "high"
    \/ \E k \in 1..Len(steps) : MentionsDatabase(steps[k].command)

\* _generate_fallback_resolution: 60 minutes, 0.8, approval required.
FallbackResolution ==
    [recommended_steps |->
        <<Step("Review all available data sources", FALSE, "low"),
          Step("Contact on-call senior engineer", FALSE, "low")>>,
     estimated_time_minutes |-> 60,
     success_probability |-> 16000000,
     human_approval_required |-> TRUE]

\* The try block of run raises: the parsed JSON has no get (not a dict), or
\* a null confidence is multiplied by 0.3 (only with a matched runbook).
AdvisorRaises(c) ==
    \/ c.form = "array"
    \/ /\ "confidence" \in c.nulls
       /\ _find_matching_runbooks(classification(c).category,
                                  classification(c).severity) # <<>>

\* ResolutionAdvisorTool.run: steps, estimates and approval flag of the
\* dict it returns.
ResolutionAdvisorTool_run(c) ==
    IF AdvisorRaises(c) THEN FallbackResolution
    ELSE LET category == classification(c).category
             severity == classification(c).severity
             confidence == classification(c).confidence
             matched_runbooks == _find_matching_runbooks(category, severity)
             resolution_steps ==
                 _generate_resolution_steps(matched_runbooks, severity)
         IN [recommended_steps |-> resolution_steps,
             estimated_time_minutes |->
                 _estimate_resolution_time(resolution_steps, severity),
             success_probability |->
                 _calculate_success_probability(matched_runbooks, confidence,
                                                severity),
             human_approval_required |->
                 _requires_human_approval(resolution_steps, severity)]

\* The advisor tool is called once, on any classification.
InitAdvisor ==
    /\ Constructed
    /\ websocket_callbacks = <<>>
    /\ ClassifierIdle
    /\ IsClassification(classification_data)
    /\ resolution_result = <<>>
    /\ ExecutorIdle
    /\ ManagerIdle

Advise ==
    /\ resolution_result = <<>>
    /\ resolution_result' = <<ResolutionAdvisorTool_run(classification_data)>>
    /\ UNCHANGED <<commander, classifier, classification_data, executor,
                   manager>>

NextAdvisor == Advise

SpecAdvisor == InitAdvisor /\ [][NextAdvisor]_vars

----------------------------------------------------------------------------
\* DevOpsCrisisCommander._simulate_resolution_execution, as a function of
\* the plan and of the values random.random() returns.

MaxSteps == 4

\* The plans of the model: up to MaxSteps steps, numbered from 1, and a
\* success_probability of 0, 0.8 or 1 (in hundredths).
IsPlan(plan) ==
    \E n \in 0..MaxSteps, p \in {0, 80, 100} :
        plan = [recommended_steps |-> [k \in 1..n |-> [step_number |-> k]],
                success_probability |-> p]

\* The values of random.random(), in hundredths, on either side of the
\* probabilities they are compared with.
Draws == {0, 79, 80, 89, 90, 99}

\* steps[:3]
Attempted(steps) == SubSeq(steps, 1, Min(3, Len(steps)))

\* The draw of the i-th step, after the draw for the whole plan:
\* random.random() < 0.9
step_success(draws, i) == draws[i + 1] < 90

\* Variant: the loop has no break.
ExecutedCount_NoBreak(steps, draws) == Len(steps)

\* The number of passes of the loop: up to the first failing step, which
\* ends it, or all the steps.
ExecutedCount(steps, draws) ==
    IF \E i \in 1..Len(steps) : ~step_success(draws, i)
    THEN CHOOSE i \in 1..Len(steps) :
             /\ ~step_success(draws, i)
             /\ \A j \in 1..(i - 1) : step_success(draws, j)
    ELSE Len(steps)

_simulate_resolution_execution(plan, draws) ==
    LET steps == Attempted(plan.recommended_steps)
        executed_steps ==
            [i \in 1..ExecutedCount(steps, draws) |->
                [step_number |-> steps[i].step_number,
                 success |-> step_success(draws, i)]]
    IN [success |->
            IF \E i \in 1..Len(executed_steps) : ~executed_steps[i].success
            THEN FALSE
            ELSE draws[1] < plan.success_probability,
        executed_steps |-> executed_steps,
        total_steps |-> Len(plan.recommended_steps)]

\* The execution is simulated once, for any plan and any draws.
InitExecutor ==
    /\ Constructed
    /\ websocket_callbacks = <<>>
    /\ ClassifierIdle
    /\ AdvisorIdle
    /\ IsPlan(resolution_plan)
    /\ random_draws \in [1..4 -> Draws]
    /\ execution_result = <<>>
    /\ ManagerIdle

Execute ==
    /\ execution_result = <<>>
    /\ execution_result' =
          <<_simulate_resolution_execution(resolution_plan, random_draws)>>
    /\ UNCHANGED <<commander, classifier, advisor, manager, resolution_plan,
                   random_draws>>

NextExecutor == Execute

SpecExecutor == InitExecutor /\ [][NextExecutor]_vars

----------------------------------------------------------------------------
\* The ConnectionManager of main.py in front of the orchestrator: websocket
\* clients connect and disconnect, and the orchestrator broadcasts.

\* The callback every connect registers: the bound method
\* manager.broadcast_to_websocket.
broadcast_to_websocket == "broadcast_to_websocket"

Connected == {active_connections[k] : k \in 1..Len(active_connections)}

InitConnections ==
    /\ Constructed
    /\ websocket_callbacks = <<>>
    /\ ClassifierIdle
    /\ AdvisorIdle
    /\ ExecutorIdle
    /\ ManagerIdle

\* ConnectionManager.connect: the websocket joins the list, and the
\* callback of the manager is registered once more.
connect(websocket) ==
    /\ websocket \notin Connected
    /\ Len(websocket_callbacks) < MaxConnects
    /\ active_connections' = Append(active_connections, websocket)
    /\ websocket_callbacks' =
          Append(websocket_callbacks, broadcast_to_websocket)
    /\ UNCHANGED <<active_incidents, completed_incidents, incident, task,
                   hist, registry_ops, tools, notifications, deliveries>>

\* ConnectionManager.disconnect: the websocket leaves the list; nothing is
\* unregistered.
disconnect(websocket) ==
    /\ websocket \in Connected
    /\ active_connections' = Remove(active_connections, websocket)
    /\ UNCHANGED <<commander, tools, notifications, deliveries>>

\* ConnectionManager.broadcast, called once by every registered callback:
\* the number of send_text calls a websocket gets.  A websocket whose
\* send_text raises gets nothing and is removed after the first call.
Sends(websocket, failing) ==
    IF websocket \in Connected \ failing THEN Len(websocket_callbacks)
    ELSE 0

\* _broadcast_update(message) with the manager's callbacks registered;
\* failing is the set of connections whose send_text raises.
Notify(failing) ==
    /\ notifications < MaxNotifications
    /\ notifications' = notifications + 1
    /\ deliveries' = [c \in Clients |-> Sends(c, failing)]
    /\ active_connections' =
          IF websocket_callbacks = <<>> THEN active_connections
          ELSE LET Alive(c) == c \notin failing
               IN SelectSeq(active_connections, Alive)
    /\ UNCHANGED <<commander, tools>>

NextConnections ==
    \/ \E c \in Clients : connect(c)
    \/ \E c \in Clients : disconnect(c)
    \/ \E failing \in SUBSET Connected : Notify(failing)

SpecConnections == InitConnections /\ [][NextConnections]_vars

----------------------------------------------------------------------------
\* Properties.

Created == DOMAIN incident

InFlight(r) == task[r].pc \notin {"start", "returned"}

\* The step is a step of run r.
StepOf(r) == task'[r] # task[r]

\* The step of run r ends the broadcast it was suspended in.
BroadcastEnds(r) ==
    /\ task[r].pc = "callback"
    /\ StepOf(r)
    /\ task'[r].pc # "callback" \/ task'[r].site # task[r].site

Count(list, x) == Cardinality({k \in 1..Len(list) : list[k] = x})

Last(list) == list[Len(list)]

\* The stages of process_alert that run after the incident is created.
Stages == {"classify", "advisory", "execute", "postmortem"}

\* C1: at every observation point no incident id is a key of both
\* active_incidents and completed_incidents.
C1_NeverInBoth == active_incidents \cap completed_incidents = {}

C1_Witness ==
    \E i \in completed_incidents, j \in Runs :
        /\ i \notin active_incidents
        /\ incident[i].status = "resolved"
        /\ j # i /\ InFlight(j) /\ j \in active_incidents

\* C2: at every observation point an incident whose status is Resolved is
\* in completed_incidents and not in active_incidents (incidents removed by
\* reset_system aside).
C2_ResolvedOnlyInCompleted ==
    \A i \in Created :
        incident[i].status = "resolved" /\ ~hist[i].cleared
            => i \in completed_incidents /\ i \notin active_incidents

\* C3 as stated: a created incident is in exactly one of the two
\* collections at every later observation point, reset calls included.
C3_ExactlyOne ==
    \A i \in Created :
        (i \in active_incidents) # (i \in completed_incidents)

\* C3 as amended: a created incident is never in both collections, and it
\* is in exactly one of them as long as reset_system has not run since it
\* was created.
C3_ExactlyOneUntilReset ==
    \A i \in Created :
        /\ ~(i \in active_incidents /\ i \in completed_incidents)
        /\ ~hist[i].cleared =>
              (i \in active_incidents) # (i \in completed_incidents)

C3_Witness ==
    \E i \in Created, j \in Created :
        /\ hist[j].cleared
        /\ ~hist[i].cleared
        /\ i \in completed_incidents

\* C4: the status starts in Detected and every assignment keeps it or moves
\* it one step forward in Detected, Analyzing, Resolving, Resolved.
C4_StatusForward ==
    \A r \in Runs :
        LET log == hist[r].statusLog
        IN /\ r \in Created =>
                /\ log # <<>>
                /\ log[1] = "detected"
                /\ incident[r].status = Last(log)
           /\ \A k \in 1..(Len(log) - 1) :
                /\ Rank(log[k + 1]) >= Rank(log[k])
                /\ Rank(log[k + 1]) <= Rank(log[k]) + 1

C4_Witness ==
    \E r \in Created, q \in Created :
        /\ hist[r].statusLog =
              <<"detected", "analyzing", "resolving", "resolved">>
        /\ hist[q].statusLog =
              <<"detected", "analyzing", "resolving", "resolving">>

\* C5: the status is Resolved only after an execution that returned
\* success, and resolved_at is set once the status broadcast is over; after
\* an execution that returned failure the status is Resolving, resolved_at
\* is unset and the incident stays in active_incidents (until a reset
\* clears it).
C5_ResolvedOnlyOnSuccess ==
    \A r \in Created :
        /\ incident[r].status = "resolved" => hist[r].exec = "success"
        /\ incident[r].status = "resolved"
           /\ ~(task[r].pc = "callback" /\ task[r].site = "resolved")
              => incident[r].resolved_at
        /\ hist[r].exec = "failure" =>
              /\ incident[r].status = "resolving"
              /\ ~incident[r].resolved_at
              /\ r \notin completed_incidents
              /\ r \in active_incidents \/ hist[r].cleared

C5_Witness ==
    \E r \in Created, q \in Created :
        /\ task[r].pc = "returned" /\ hist[r].exec = "failure"
        /\ hist[r].errStage = "none" /\ r \in active_incidents
        /\ task[q].pc = "returned" /\ hist[q].exec = "success"
        /\ incident[q].resolved_at

\* C6: when a broadcast ends, every observer that was registered (once) at
\* its start and is registered (once) at its end has been called exactly
\* once, whatever registrations happened in between.
C6_MutationSafe ==
    [][\A r \in Runs :
          BroadcastEnds(r) =>
             \A o \in Observers :
                Count(hist[r].bcStart, o) = 1
                /\ Count(websocket_callbacks, o) = 1
                   => Count(hist[r].bcGot, o) = 1]_vars

\* C7: whether the callback a run is suspended in returns or raises, no
\* exception reaches process_alert, the observer list is left as it is,
\* and a broadcast during which nobody registered or unregistered ends only
\* when every entry of the list has been called, once and in list order.
C7_FailureIsolated ==
    [][\A r \in Runs :
          task[r].pc = "callback" /\ StepOf(r) =>
             /\ hist'[r].errStage = "none"
             /\ websocket_callbacks' = websocket_callbacks
             /\ BroadcastEnds(r) /\ ~hist[r].bcMutated
                   => hist[r].bcGot = websocket_callbacks]_vars

C7_Witness ==
    \E r \in Runs :
        /\ task[r].pc = "callback"
        /\ task[r].site = "analyzing"
        /\ hist[r].bcFailed
        /\ ~hist[r].bcMutated
        /\ task[r].idx = 2
        /\ hist[r].bcGot = websocket_callbacks

\* What process_alert leaves when a stage raised: it returned, the status
\* is the one at the exception, the last timeline entry is the error entry
\* and get_incident_by_id finds the incident.
ErrorRecorded(r) ==
    /\ task'[r].pc = "returned"
    /\ incident'[r].status = hist'[r].errStatus
    /\ incident'[r].timeline = Append(incident[r].timeline, "error_handling")
       \/ /\ Len(incident'[r].timeline) = Len(incident[r].timeline) + 2
          /\ Last(incident'[r].timeline) = "error_handling"
    /\ get_incident_by_id(r)' = r

\* The step in which a stage of run r raises.
StageRaises(r) ==
    hist[r].errStage = "none" /\ hist'[r].errStage \in Stages

\* C8 as stated: for every stage that raises, under any interleaving with
\* other runs and reset calls, process_alert returns the incident with its
\* status, with an error entry in the timeline, and retrievable.
C8_ErrorRecorded ==
    [][\A r \in Runs : StageRaises(r) => ErrorRecorded(r)]_vars

\* C8 as amended: the same when reset_system has not run since the incident
\* was created; after a reset process_alert still returns the incident with
\* the status it had, but records no error entry and the incident is not
\* retrievable.
C8_ErrorRecordedUntilReset ==
    [][\A r \in Runs :
          StageRaises(r) =>
             IF ~hist[r].cleared THEN ErrorRecorded(r)
             ELSE /\ task'[r].pc = "returned"
                  /\ incident'[r].status = hist'[r].errStatus
                  /\ "error_handling" \notin
                        {incident'[r].timeline[k] :
                            k \in 1..Len(incident'[r].timeline)}]_vars

C8_Witness ==
    \E r \in Created, q \in Runs :
        /\ hist[r].errStage = "postmortem"
        /\ ~hist[r].cleared
        /\ task[r].pc = "returned"
        /\ Last(incident[r].timeline) = "error_handling"
        /\ incident[r].status = "resolved"
        /\ get_incident_by_id(r) = r
        /\ q # r /\ InFlight(q)

\* The timeline entry a stage appends.
StageAction(stage) ==
    CASE stage = "classify" -> "classify_incident"
      [] stage = "advisory" -> "suggest_resolution"
      [] stage = "postmortem" -> "generate_postmortem"
      [] OTHER -> "execute_resolution"

\* C9: when the enrichment call of a stage raises, the stage still appends
\* its entry and the run is not ended by that failure.
C9_EnrichmentNeverStops ==
    \A r \in Created :
        hist[r].errCause = "enrichment" =>
            \E k \in 1..Len(incident[r].timeline) :
                incident[r].timeline[k] = StageAction(hist[r].errStage)

\* C10: when process_alert has returned, the status of the incident is
\* Resolving or Resolved.
C10_EndsResolvingOrResolved ==
    \A r \in Created :
        task[r].pc = "returned" =>
            incident[r].status \in {"resolving", "resolved"}

\* The notifications emitted for run r, oldest first.
Emitted(r) == hist[r].emitted

\* The positions in Emitted(r) of the messages observer o was called with,
\* in the order of the calls.
DeliveredTo(r, o) ==
    LET d == hist[r].delivered
        F[k \in 0..Len(d)] ==
            IF k = 0 THEN <<>>
            ELSE IF d[k].to = o THEN Append(F[k - 1], d[k].msg)
                 ELSE F[k - 1]
    IN F[Len(d)]

\* C11: once process_alert has returned, an incident whose status reached
\* Resolved (and that no reset removed) has been moved from
\* active_incidents to completed_incidents, and the last notification
\* emitted for it is incident_completed.
C11_ResolvedIsCompleted ==
    \A r \in Created :
        task[r].pc = "returned" /\ incident[r].status = "resolved"
        /\ ~hist[r].cleared
            => /\ r \in completed_incidents
               /\ r \notin active_incidents
               /\ Emitted(r) # <<>>
               /\ Last(Emitted(r)).type = "incident_completed"

\* C12: the notifications of an incident follow the protocol order:
\* incident_created is the first and only the first; the status_updates
\* report every status assigned after Detected, in order; incident_completed
\* is only the last; every type is one of the four protocol types; and an
\* observer registered during the whole run has been called with every
\* notification emitted so far, in that order, whenever no broadcast of the
\* run is in flight.
C12_ProtocolOrder ==
    \A r \in Created :
        LET e == Emitted(r)
            updates == {k \in 1..Len(e) : e[k].type = "status_update"}
        IN /\ \A k \in 1..Len(e) :
                 /\ e[k].type \in {"incident_created", "status_update",
                                   "incident_completed", "incident_error"}
                 /\ e[k].type = "incident_created" <=> k = 1
                 /\ e[k].type = "incident_completed" => k = Len(e)
                 /\ k \in updates => e[k].status = hist[r].statusLog[k]
           /\ Cardinality(updates) = Len(hist[r].statusLog) - 1
           /\ task[r].pc # "callback" =>
                 \A o \in hist[r].steady :
                    LET got == DeliveredTo(r, o)
                    IN /\ {got[j] : j \in 1..Len(got)} = 1..Len(e)
                       /\ \A j \in 1..(Len(got) - 1) : got[j] <= got[j + 1]

\* C13: the timeline of an incident never gets shorter, and when
\* process_alert returns after a pipeline in which no stage raised, the
\* timeline has at least four entries.
C13_TimelineGrows ==
    [][\A r \in Created :
          /\ Len(incident'[r].timeline) >= Len(incident[r].timeline)
          /\ task'[r].pc = "returned" /\ hist'[r].errStage = "none"
                => Len(incident'[r].timeline) >= 4]_vars

C13_Witness ==
    \E r \in Created, q \in Created :
        /\ task[r].pc = "returned" /\ hist[r].errStage = "none"
        /\ incident[r].timeline =
              <<"classify_incident", "suggest_resolution",
                "execute_resolution", "generate_postmortem">>
        /\ hist[q].errStage = "classify"
        /\ incident[q].timeline = <<"error_handling">>

\* The classifier tool has returned.
Classified == classification_result # <<>>

\* The alert of test_workflow: "High CPU usage detected" has the word cpu
\* and no other probed word.
TestAlert ==
    [form |-> "object", alert_type |-> "cpu", severity |-> "high",
     message |-> {"cpu"}, affected_services |-> <<"web-server">>,
     metrics |-> [k \in {"cpu_usage"} |-> 95], source_system |-> "",
     nulls |-> {}]

\* A reading of the metric above the threshold of its trigger.
Above(name) ==
    CASE name = "cpu_usage" -> 96
      [] name = "memory_usage" -> 91
      [] name = "error_rate" -> 11
      [] name = "response_time" -> 5001

\* The alerts got from an alert by making one trigger fire: a metric is
\* raised above its threshold, or a word is added to the message.
Escalations(alert) ==
    {[alert EXCEPT !.metrics =
         [k \in DOMAIN @ \cup {n} |-> IF k = n THEN Above(n) ELSE @[k]]] :
        n \in MetricNames \ alert.nulls}
    \cup {[alert EXCEPT !.message = @ \cup {word}] :
             word \in {"down", "connection", "health check"}}

\* C14: whatever the input, malformed ones included, the category returned
\* by the classifier is one of infrastructure, application, database,
\* network.
C14_CategoryInDomain ==
    Classified =>
        classification_result[1].category \in
            {"infrastructure", "application", "database", "network"}

\* C15: for every alert whose message contains "database" or whose declared
\* type is "database", whatever else it carries, the classifier returns the
\* category database.
C15_DatabasePrecedence ==
    Classified
    /\ ("database" \in alert_data.message
        \/ alert_data.alert_type = "database")
        => classification_result[1].category = "database"

\* C16: for every alert the classifier scores, making one more trigger fire
\* (a metric above its threshold, a crisis keyword, "connection", "health
\* check") gives an assessed severity that is the same or higher.
C16_SeverityMonotone ==
    Classified /\ ~ClassifierRaises(alert_data) =>
        \A b \in Escalations(alert_data) :
            severity_map(IncidentClassifierTool_run(b).severity)
                >= severity_map(classification_result[1].severity)

C16_Witness ==
    /\ Classified /\ ~ClassifierRaises(alert_data)
    /\ classification_result[1].category = "application"
    /\ classification_result[1].severity = "medium"
    /\ "application_health_check" \in
          Triggers(alert_data.metrics, alert_data.message, "application")
    /\ \E b \in Escalations(alert_data) :
          /\ IncidentClassifierTool_run(b).category = "database"
          /\ IncidentClassifierTool_run(b).severity = "medium"
    /\ \E b \in Escalations(alert_data) :
          IncidentClassifierTool_run(b).severity = "high"

\* C17: the alert of test_workflow is classified as infrastructure, with a
\* severity of high or critical and a confidence above 0.5; and every
\* cpu-type alert with stated severity high that the classifier scores is
\* assessed high or critical.
C17_CpuHighStaysHigh ==
    Classified =>
        /\ alert_data = TestAlert =>
              /\ classification_result[1].category = "infrastructure"
              /\ classification_result[1].severity \in {"high", "critical"}
              /\ classification_result[1].confidence > 50
        /\ Lower(alert_data.alert_type) = "cpu"
           /\ Lower(alert_data.severity) = "high"
           /\ ~ClassifierRaises(alert_data)
              => classification_result[1].severity \in {"high", "critical"}

\* C18: whatever the input, empty and malformed ones included, and whatever
\* boosts apply, the confidence returned by the classifier is between 0
\* and 1 (0 and 100 hundredths).
C18_ConfidenceInRange ==
    Classified =>
        /\ classification_result[1].confidence >= 0
        /\ classification_result[1].confidence <= 100

C18_Witness ==
    /\ Classified /\ ~ClassifierRaises(alert_data)
    /\ Boosted(alert_data, classification_result[1].category,
               classification_result[1].severity) > 100
    /\ classification_result[1].confidence = 100

\* The advisor tool has returned.
Advised == resolution_result # <<>>

\* The runbooks matched for the classification the advisor was given.
Matched ==
    _find_matching_runbooks(classification(classification_data).category,
                            classification(classification_data).severity)

\* C19: for every classification, with a confidence inside [0, 1] or not,
\* on the runbook path, the generic path and the fallback path, the plan
\* has estimated_time_minutes >= 5 and success_probability <= 0.95
\* (19000000 in units of 1/20000000).
C19_PlanWithinLimits ==
    Advised =>
        /\ resolution_result[1].estimated_time_minutes >= 5
        /\ resolution_result[1].success_probability <= 19000000

C19_Witness ==
    /\ Advised /\ ~AdvisorRaises(classification_data)
    /\ Matched # <<>>
    /\ classification_data.confidence = 100
    /\ resolution_result[1].estimated_time_minutes = 14
    /\ resolution_result[1].success_probability = 18400000

\* C20: for the classification {database, high, 0.9} the first matched
\* runbook is "Database Connection Pool Exhaustion", its steps are the
\* steps of the plan, and the plan requires human approval.
C20_DatabaseRunbook ==
    Advised
    /\ classification_data =
          [form |-> "dict", category |-> "database", severity |-> "high",
           confidence |-> 90, nulls |-> {}]
        => /\ Matched # <<>>
           /\ Matched[1].title = "Database Connection Pool Exhaustion"
           /\ resolution_result[1].recommended_steps = Matched[1].steps
           /\ resolution_result[1].human_approval_required

C20_Witness ==
    /\ Advised
    /\ classification_data.form = "dict"
    /\ classification_data.category = "database"
    /\ classification_data.severity = "high"
    /\ classification_data.confidence = 90
    /\ classification_data.nulls = {}
    /\ Len(resolution_result[1].recommended_steps) = 4
    /\ resolution_result[1].recommended_steps[3].risk_level = "high"
    /\ resolution_result[1].human_approval_required

\* The simulated execution has returned.
Executed == execution_result # <<>>

\* C21: whatever the draws, the executed steps are the first steps of the
\* plan, three at most; only the last executed step can have failed, and
\* the loop stops early only on a failure; success is true only if the
\* draw for the plan succeeded and every executed step did; with
\* success_probability 0 the steps are attempted and success is false.
C21_StopsAtFirstFailure ==
    Executed =>
        LET steps == resolution_plan.recommended_steps
            done == execution_result[1].executed_steps
        IN /\ Len(done) <= Min(3, Len(steps))
           /\ \A i \in 1..Len(done) :
                 /\ done[i].step_number = steps[i].step_number
                 /\ i < Len(done) => done[i].success
           /\ Len(done) < Min(3, Len(steps)) => ~done[Len(done)].success
           /\ execution_result[1].success =>
                 /\ random_draws[1] < resolution_plan.success_probability
                 /\ \A i \in 1..Len(done) : done[i].success
           /\ resolution_plan.success_probability = 0 =>
                 /\ ~execution_result[1].success
                 /\ steps # <<>> => done # <<>>

C21_Witness ==
    /\ Executed
    /\ resolution_plan.success_probability = 0
    /\ Len(resolution_plan.recommended_steps) = 4
    /\ Len(execution_result[1].executed_steps) = 2
    /\ execution_result[1].executed_steps[1].success
    /\ ~execution_result[1].executed_steps[2].success
    /\ ~execution_result[1].success

IsPrefix(s, t) == Len(s) <= Len(t) /\ SubSeq(t, 1, Len(s)) = s

\* The actions of the stage entries, in the order of the stages.
StageOrder ==
    <<"classify_incident", "suggest_resolution", "execute_resolution",
      "generate_postmortem">>

\* The stage entries of a timeline, in the order they have in it.
StageEntries(timeline) ==
    LET IsStage(action) == \E k \in 1..Len(StageOrder) : StageOrder[k] = action
    IN SelectSeq(timeline, IsStage)

\* C22: in every step, of any stage and of the post-mortem stage too, the
\* timeline an incident had before is a prefix of the one it has after,
\* and the stage entries of a timeline are, in this order,
\* classify_incident, suggest_resolution, execute_resolution and
\* generate_postmortem, or the first of them.
C22_AppendOnly ==
    [][\A r \in Created :
          /\ IsPrefix(incident[r].timeline, incident'[r].timeline)
          /\ IsPrefix(StageEntries(incident'[r].timeline), StageOrder)]_vars

C22_Witness ==
    \E r \in Created, q \in Created :
        /\ incident[r].timeline = StageOrder
        /\ incident[q].timeline =
              <<"classify_incident", "suggest_resolution",
                "execute_resolution", "error_handling">>

\* The number of stages that returned before the given one raised; all
\* four when none raised.
StagesDone(errStage) ==
    CASE errStage = "classify" -> 0
      [] errStage = "advisory" -> 1
      [] errStage = "execute" -> 2
      [] errStage = "postmortem" -> 3
      [] OTHER -> 4

\* What process_alert leaves behind when it runs alone with the given
\* outcome of the stages: the statuses assigned, the timeline, and the
\* collection that holds the incident.
AloneStatusLog(errStage, exec) ==
    SubSeq(<<"detected", "analyzing", "resolving",
             StatusAfterExecution(exec = "success")>>,
           1, Min(4, IF StagesDone(errStage) = 2 THEN 3
                     ELSE StagesDone(errStage) + 2))

AloneTimeline(errStage) ==
    IF errStage = "none" THEN StageOrder
    ELSE Append(SubSeq(StageOrder, 1, StagesDone(errStage)),
                "error_handling")

AloneCollection(errStage, exec) ==
    IF errStage = "none" /\ exec = "success" THEN "completed" ELSE "active"

\* C23: a step of one process_alert run leaves every other incident's
\* fields and its membership of the two collections as they were, and a
\* run that returns (no reset since it began) has assigned the statuses,
\* written the timeline and left its incident in the collection that the
\* same outcome of the stages gives when the alert is processed alone.
C23_RunsIndependent ==
    [][\A r \in Runs :
          /\ StepOf(r) =>
                \A q \in Created \ {r} :
                    /\ incident'[q] = incident[q]
                    /\ q \in active_incidents' <=> q \in active_incidents
                    /\ q \in completed_incidents' <=>
                          q \in completed_incidents
          /\ task'[r].pc = "returned" /\ ~hist'[r].cleared =>
                /\ hist'[r].statusLog =
                      AloneStatusLog(hist'[r].errStage, hist'[r].exec)
                /\ incident'[r].timeline = AloneTimeline(hist'[r].errStage)
                /\ IF AloneCollection(hist'[r].errStage, hist'[r].exec)
                         = "completed"
                   THEN r \in completed_incidents' \ active_incidents'
                   ELSE r \in active_incidents' \ completed_incidents'
      ]_vars

\* Both runs are between two awaits, then one returns resolved while the
\* other has failed in a stage.
C23_Witness ==
    \E r \in Created, q \in Created :
        /\ r # q
        /\ task[r].pc = "returned" /\ task[q].pc = "returned"
        /\ ~hist[r].cleared /\ ~hist[q].cleared
        /\ hist[r].errStage = "none" /\ hist[r].exec = "success"
        /\ r \in completed_incidents
        /\ hist[q].errStage = "advisory"
        /\ q \in active_incidents

\* The post-mortem stage of run r returns its report in this step.
PostmortemReported(r) ==
    /\ task[r].pc = "postmortem"
    /\ StepOf(r)
    /\ hist'[r].errStage = "none"

\* C24: when the post-mortem stage returns, after a successful and after a
\* failed execution, the timeline gains generate_postmortem as its last
\* entry, the status and resolved_at stay as they were, and the incident
\* now holds the report: a field of it other than the timeline changed.
C24_ReportAttached ==
    [][\A r \in Runs :
          PostmortemReported(r) =>
             /\ hist[r].exec \in {"success", "failure"}
             /\ incident'[r].timeline =
                   Append(incident[r].timeline, "generate_postmortem")
             /\ incident'[r].status = incident[r].status
             /\ incident'[r].resolved_at = incident[r].resolved_at
             /\ [incident'[r] EXCEPT !.timeline = incident[r].timeline]
                   # incident[r]]_vars

\* The places of the catalog whose runbook is applicable to the severity
\* the advisor works on.
Applicable ==
    {j \in 1..Len(runbook_db) :
        classification(classification_data).severity
            \in runbook_db[j].severity_levels}

\* Those of them whose runbook has the category the advisor works on.
InCategory ==
    {j \in Applicable :
        runbook_db[j].category = classification(classification_data).category}

\* The k-th place of a set of places of the catalog, in catalog order.
Place(places, k) ==
    CHOOSE j \in places : Cardinality({i \in places : i < j}) = k - 1

\* C25: the advisor matches at most two runbooks, each applicable to the
\* severity: the first ones, in catalog order, of the runbooks of the
\* category that are applicable to the severity when there is one, and
\* only when there is none the first ones of all the runbooks applicable
\* to the severity.
C25_RunbookSelection ==
    Advised =>
        LET places == IF InCategory # {} THEN InCategory ELSE Applicable
        IN /\ Len(Matched) = Min(2, Cardinality(places))
           /\ \A k \in 1..Len(Matched) :
                 /\ Matched[k] = runbook_db[Place(places, k)]
                 /\ classification(classification_data).severity
                        \in Matched[k].severity_levels
                 /\ InCategory # {} =>
                       Matched[k].category =
                           classification(classification_data).category

\* No runbook has the category, and the first two of the four that are
\* applicable to the severity are matched.
C25_Witness ==
    /\ Advised
    /\ classification_data.form = "dict"
    /\ classification_data.category = "unknown"
    /\ classification_data.severity = "high"
    /\ InCategory = {}
    /\ Cardinality(Applicable) > 2
    /\ Len(Matched) = 2
    /\ Matched[1].category # Matched[2].category

\* C26: in every state, between any two steps of the runs, an incident has
\* resolved_at set if and only if its status is Resolved.
C26_ResolvedAtIffResolved ==
    \A r \in Created :
        incident[r].resolved_at <=> incident[r].status = "resolved"

\* C27: every broadcast of the orchestrator reaches each websocket that is
\* connected (and whose send does not fail) exactly once, and a websocket
\* that is not connected not at all, whatever connects and disconnects
\* came before.
C27_DeliveredOnce ==
    [][notifications' # notifications =>
          \A c \in Clients :
              deliveries'[c] =
                  IF c \in Connected /\ c \in
                         {active_connections'[k] :
                             k \in 1..Len(active_connections')}
                  THEN 1 ELSE 0]_vars

\* Run r passes a message of the given type to _broadcast_update in this
\* step.
Emits(r, type) ==
    /\ Len(hist'[r].emitted) > Len(hist[r].emitted)
    /\ Last(hist'[r].emitted).type = type

\* C28: when incident_completed is emitted for an incident, its status is
\* Resolved and it is in completed_incidents; a run whose execution
\* returned failure never emits it.
C28_CompletedOnlyWhenResolved ==
    [][\A r \in Runs :
          Emits(r, "incident_completed") =>
             /\ incident'[r].status = "resolved"
             /\ r \in completed_incidents'
             /\ hist'[r].exec # "failure"]_vars

\* C29: when process_alert has returned after a stage raised, it has
\* emitted an incident_error message, and every observer registered all
\* along has been called with it.
C29_ErrorNotified ==
    \A r \in Created :
        task[r].pc = "returned" /\ hist[r].errStage \in Stages =>
            \E k \in 1..Len(Emitted(r)) :
                /\ Emitted(r)[k].type = "incident_error"
                /\ \A o \in hist[r].steady :
                      \E j \in 1..Len(hist[r].delivered) :
                          /\ hist[r].delivered[j].to = o
                          /\ hist[r].delivered[j].msg = k

\* C30: for every alert the classifier scores whose stated severity is
\* critical, high, medium or low, whether triggers fire or not, the
\* assessed severity is the stated one or a higher one.
C30_NeverBelowStated ==
    Classified /\ ~ClassifierRaises(alert_data)
    /\ Lower(alert_data.severity) \in {"critical", "high", "medium", "low"}
        => severity_map(classification_result[1].severity)
              >= severity_map(Lower(alert_data.severity))

====
